---- MODULE Spec2Model ----
(***************************************************************************)
(* The time-travel camera viewer of src/App.tsx: the frame buffer, the     *)
(* LIVE/PAUSED playback state, the capture timer, the analysis request     *)
(* (src/services/geminiService.ts) and the OFFSET read-out.                *)
(*                                                                         *)
(* One step of the model is one task of the browser's event loop: a timer  *)
(* callback, an input event, the settlement of the analysis promise, or    *)
(* React's flush of the passive effects (useEffect) of the last commit.    *)
(* A commit whose dependencies changed leaves its effects pending.  React  *)
(* flushes them in the same task after a commit made by an input event and *)
(* right after paint otherwise, so the model lets no other handler run     *)
(* while pendingEffects is not empty.                                      *)
(***************************************************************************)
EXTENDS Integers, Sequences, FiniteSets, TLC

\* ------------------------------------------------------------------ bounds
\* Capacity of the frame buffer (200 in the source, scaled down here).
MAX_BUFFER_SIZE == 3
\* Frames captured in one behaviour.
MaxCaptures == 5
\* Interval timers created in one behaviour.
MaxTimers == 2
\* Date.now() at the first capture tick, and how late a tick may fire (ms).
SessionStart == 1000
Jitter == 30
\* Longest buffer drawn for the OFFSET read-out checked on its own.
MaxOffsetLen == 4

\* --------------------------------------------------------------- constants
CAPTURE_INTERVAL_MS == 100
\* The least video.readyState at which captureFrame reads the video.
HAVE_CURRENT_DATA == 2

LIVE == "LIVE"
PAUSED == "PAUSED"

\* JavaScript's null and undefined, kept apart from every real string.
JsNull == "<null>"
JsUndefined == "<undefined>"
Falsy(v) == v \in {"", JsNull, JsUndefined}

VARIABLES
    frames,             \* useState<TimeFrame[]>: the frame buffer, oldest first
    playbackState,      \* useState<PlaybackState>
    currentFrameIndex,  \* useState<number>, 0-based, -1 before the first frame
    isAnalyzing,        \* useState<boolean>
    analysis,           \* useState<string | null>
    intervalRef,        \* useRef<number | null>: 0 stands for null
    timers,             \* the window's active interval timers
    nextTimer,          \* the id the next setInterval returns
    pendingEffects,     \* effects of the last commit that have not run yet
    inflight,           \* analyzeTimeFrame calls awaiting the remote service
    API_KEY,            \* process.env.API_KEY || ''
    readyState,         \* video.readyState
    now,                \* Date.now()
    nextId,             \* stands for crypto.randomUUID(): 1, 2, 3, ...
    offsetText,         \* what the last render wrote after "OFFSET:"
    lastEvent           \* the last handler that ran, for stating the properties

vars == <<frames, playbackState, currentFrameIndex, isAnalyzing, analysis,
          intervalRef, timers, nextTimer, pendingEffects, inflight, API_KEY,
          readyState, now, nextId, offsetText, lastEvent>>

\* ----------------------------------------------------------------- helpers
Max(a, b) == IF a >= b THEN a ELSE b

\* frames[i] of the source (0-based); only for 0 <= i < Len(fr).
frameAt(fr, i) == fr[i + 1]
hasFrame(fr, i) == i >= 0 /\ i < Len(fr)

\* canvas.toDataURL('image/jpeg', 0.7): the text before the comma and after it.
toDataURL(scene) == <<"data:image/jpeg;base64", scene>>

Event(op, arg, from, aux) == [op |-> op, arg |-> arg, from |-> from, aux |-> aux]
\* ------------------------------------------------- src/services/geminiService.ts
\* What ai.models.generateContent does with a request: it throws, or it
\* answers with a response whose .text is a string or undefined.
AText == "Scene me ek vyakti dikh raha hai."
Outcomes ==
    {[kind |-> "throw", text |-> JsUndefined],
     [kind |-> "text", text |-> AText],
     [kind |-> "empty", text |-> ""],
     [kind |-> "notext", text |-> JsUndefined]}

MissingKeyText == "Error: API Key missing. Cannot analyze time stream."
NoTextText == "No analysis data retrieved from the timeline."
NetworkFaultText == "Sampark toot gaya. Analysis nahi ho paya."

Returned(value) == [threw |-> FALSE, value |-> value]
Rejected == [threw |-> TRUE, value |-> JsUndefined]

\* imageData.split(',')[1]
base64Data(imageData) ==
    IF Len(imageData) >= 2 THEN imageData[2] ELSE JsUndefined

\* analyzeTimeFrame with the catch block left out: the fault reaches the caller.
analyzeTimeFrameNoCatch(key, imageData, outcome) ==
    IF Falsy(key) THEN Returned(MissingKeyText)
    ELSE IF outcome.kind = "throw" THEN Rejected
         ELSE IF Falsy(outcome.text) THEN Returned(NoTextText)
              ELSE Returned(outcome.text)

\* The settled promise of analyzeTimeFrame(imageData): fulfilled with a string,
\* or rejected.
analyzeTimeFrame(key, imageData, outcome) ==
    IF Falsy(key) THEN Returned(MissingKeyText)
    ELSE IF outcome.kind = "throw" THEN Returned(NetworkFaultText)
         ELSE IF Falsy(outcome.text) THEN Returned(NoTextText)
              ELSE Returned(outcome.text)

\* ------------------------------------------------------------- src/App.tsx
\* The updater without its truncation.
appendFrameUntruncated(prev, newFrame) == Append(prev, newFrame)

\* The updater keeping the front of the buffer: slice(0, MAX_BUFFER_SIZE).
appendFrameKeepOldest(prev, newFrame) ==
    LET newBuffer == Append(prev, newFrame)
    IN  IF Len(newBuffer) > MAX_BUFFER_SIZE
        THEN SubSeq(newBuffer, 1, MAX_BUFFER_SIZE)
        ELSE newBuffer

\* The updater given to setFrames in captureFrame.
appendFrame(prev, newFrame) ==
    LET newBuffer == Append(prev, newFrame)
    IN  IF Len(newBuffer) > MAX_BUFFER_SIZE
        THEN SubSeq(newBuffer, Len(newBuffer) - MAX_BUFFER_SIZE + 1, Len(newBuffer))
        ELSE newBuffer

\* The effect setting frames.length instead of frames.length - 1.
liveIndexSyncOffByOne(state, len, index) ==
    IF state = LIVE THEN len ELSE index

\* The effect without its test of playbackState.
liveIndexSyncAlways(state, len, index) == len - 1

\* The effect "Update current frame index when live": the index it leaves.
liveIndexSync(state, len, index) ==
    IF state = LIVE THEN len - 1 ELSE index

\* handleTimelineChange comparing with > instead of >=.
scrubStateStrict(index, len) ==
    IF index > len - 1 THEN LIVE ELSE PAUSED

\* handleTimelineChange taking the last two indexes for the live edge.
scrubStateWide(index, len) ==
    IF index >= len - 2 THEN LIVE ELSE PAUSED

\* The playback state handleTimelineChange chooses for a slider value.
scrubState(index, len) ==
    IF index >= len - 1 THEN LIVE ELSE PAUSED

\* The values the range input can report: min 0, max Math.max(0, length - 1).
sliderValues(len) == 0 .. Max(0, len - 1)

\* diff.toFixed(1) for diff = ms / 1000, in tenths of a second.  (An exact
\* tie, ms = 50 mod 100, depends on the binary value of ms / 1000; the
\* tick delays of this model produce none.)
toFixed1(ms) ==
    IF ms >= 0 THEN (ms + 50) \div 100 ELSE 0 - ((50 - ms) \div 100)

\* "0.0s" is [minus |-> FALSE, tenths |-> 0]; `-${diff.toFixed(1)}s` has
\* the leading minus.
getTimeOffset(fr, index) ==
    LET zero == [minus |-> FALSE, tenths |-> 0]
    IN  IF Len(fr) = 0 \/ index < 0 THEN zero
        ELSE IF ~hasFrame(fr, index) THEN zero      \* current is undefined
        ELSE LET current == frameAt(fr, index).timestamp
                 latest == fr[Len(fr)].timestamp
             IN  IF current = 0 \/ latest = 0 THEN zero   \* !current || !latest
                 ELSE [minus |-> TRUE, tenths |-> toFixed1(latest - current)]

\* The effect creating a timer only while intervalRef.current is still null.
loopTimersOnlyFirst(state, ref, active, fresh) ==
    LET cleaned == IF ref # 0 THEN active \ {ref} ELSE active
    IN  IF state = LIVE /\ ref = 0 THEN cleaned \cup {fresh} ELSE cleaned

\* The effect without clearInterval: a timer survives the change to PAUSED.
loopTimersNeverCleared(state, ref, active, fresh) ==
    IF state = LIVE THEN active \cup {fresh} ELSE active

\* The interval timers left by the "Buffering Loop" effect when playbackState
\* changed: the cleanup of the previous run, then the body.
loopTimers(state, ref, active, fresh) ==
    LET cleaned == IF ref # 0 THEN active \ {ref} ELSE active
    IN  IF state = LIVE THEN cleaned \cup {fresh}
        ELSE IF ref # 0 THEN cleaned \ {ref} ELSE cleaned

\* What a commit leaves behind: the effects whose dependencies changed, and
\* the OFFSET text of the new render.
Commit ==
    /\ pendingEffects' =
          (IF playbackState' # playbackState THEN {"loop", "sync"} ELSE {})
          \cup (IF Len(frames') # Len(frames) THEN {"sync"} ELSE {})
    /\ offsetText' = getTimeOffset(frames', currentFrameIndex')

Init ==
    /\ frames = <<>>
    /\ playbackState = LIVE
    /\ currentFrameIndex = -1
    /\ isAnalyzing = FALSE
    /\ analysis = JsNull
    /\ intervalRef = 0
    /\ timers = {}
    /\ nextTimer = 1
    /\ pendingEffects = {"loop", "sync"}
    /\ inflight = <<>>
    /\ API_KEY \in {"", "key"}
    /\ readyState = HAVE_CURRENT_DATA - 1
    /\ now = SessionStart
    /\ nextId = 1
    /\ offsetText = getTimeOffset(<<>>, -1)
    /\ lastEvent = Event("mount", -1, LIVE, "")

\* React runs the pending effects of the last commit, in source order.
FlushEffects ==
    /\ pendingEffects # {}
    /\ LET loop == "loop" \in pendingEffects
           starts == loop /\ playbackState = LIVE
       IN  /\ timers' = IF loop
                        THEN loopTimers(playbackState, intervalRef, timers, nextTimer)
                        ELSE timers
           /\ intervalRef' = IF starts THEN nextTimer ELSE intervalRef
           /\ nextTimer' = IF starts THEN nextTimer + 1 ELSE nextTimer
    /\ currentFrameIndex' =
          IF "sync" \in pendingEffects
          THEN liveIndexSync(playbackState, Len(frames), currentFrameIndex)
          ELSE currentFrameIndex
    /\ pendingEffects' = {}
    /\ offsetText' = getTimeOffset(frames, currentFrameIndex')
    /\ UNCHANGED <<frames, playbackState, isAnalyzing, analysis, inflight,
                   API_KEY, readyState, now, nextId, lastEvent>>

\* The video element starts or stops providing data.
VideoReadyChange ==
    /\ pendingEffects = {}
    /\ readyState' \in {HAVE_CURRENT_DATA - 1, HAVE_CURRENT_DATA} \ {readyState}
    /\ UNCHANGED <<frames, playbackState, currentFrameIndex, isAnalyzing,
                   analysis, intervalRef, timers, nextTimer, pendingEffects,
                   inflight, API_KEY, now, nextId, offsetText, lastEvent>>

\* captureFrame reading the video whatever its readyState.
sourceReadableAnyState(rs, ctx) == ctx

\* Whether captureFrame gets to draw: video.readyState >= 2 and a 2d context.
\* (videoRef and canvasRef are set before the first timer is created.)
sourceReadable(rs, ctx) == rs >= HAVE_CURRENT_DATA /\ ctx

\* What a tick finds: how long after the last one it fires, and what the
\* camera shows.  (An on-time tick and a late one; no property relates the
\* picture to the time.)
TickInputs ==
    {[delay |-> CAPTURE_INTERVAL_MS, scene |-> "sceneA"],
     [delay |-> CAPTURE_INTERVAL_MS + Jitter, scene |-> "sceneB"]}

\* A tick of interval timer t: captureFrame().
captureFrame(t) ==
    /\ pendingEffects = {}
    /\ t \in timers
    /\ nextId <= MaxCaptures
    /\ \E ctx \in BOOLEAN, tick \in TickInputs :
          IF ~sourceReadable(readyState, ctx)
          THEN /\ lastEvent' = Event("captureFrame", 0, playbackState, "")
               /\ UNCHANGED <<frames, now, nextId>>
          ELSE LET newFrame == [id |-> nextId,
                                timestamp |-> now + tick.delay,
                                imageData |-> toDataURL(tick.scene)]
               IN  /\ frames' = appendFrame(frames, newFrame)
                   /\ now' = now + tick.delay
                   /\ nextId' = nextId + 1
                   /\ lastEvent' = Event("captureFrame", 1, playbackState, "")
    /\ UNCHANGED <<playbackState, currentFrameIndex, isAnalyzing, analysis,
                   intervalRef, timers, nextTimer, inflight, API_KEY, readyState>>
    /\ Commit

\* The user moves the timeline slider to index.
handleTimelineChange(index) ==
    /\ pendingEffects = {}
    /\ index \in sliderValues(Len(frames))
    /\ (playbackState = PAUSED /\ scrubState(index, Len(frames)) = LIVE)
          => nextTimer <= MaxTimers
    /\ currentFrameIndex' = index
    /\ playbackState' = scrubState(index, Len(frames))
    /\ analysis' = IF playbackState' = LIVE THEN JsNull ELSE analysis
    /\ lastEvent' = Event("scrub", index, playbackState, "")
    /\ UNCHANGED <<frames, isAnalyzing, intervalRef, timers, nextTimer, inflight,
                   API_KEY, readyState, now, nextId>>
    /\ Commit

\* The Analyze button rendered in every playback state.
analyzeEnabledAnyState(state, analyzing) == ~analyzing

\* The Analyze button without its disabled attribute.
analyzeEnabledWhileAnalyzing(state, analyzing) == state = PAUSED

\* The Analyze button is rendered only in PAUSED and is disabled while
\* isAnalyzing.
analyzeEnabled(state, analyzing) == state = PAUSED /\ ~analyzing

\* handleAnalyze taking the newest frame instead of the displayed one.
analyzedFrameNewest(fr, index) == fr[Len(fr)]

\* const frame = frames[currentFrameIndex]
analyzedFrame(fr, index) == frameAt(fr, index)

\* The user clicks Analyze.  (dismissed is bookkeeping for the properties:
\* whether the overlay was closed since the request was issued.)
handleAnalyze ==
    /\ pendingEffects = {}
    /\ analyzeEnabled(playbackState, isAnalyzing)
    /\ IF currentFrameIndex < 0 \/ ~hasFrame(frames, currentFrameIndex)
       THEN /\ lastEvent' = Event("analyze", -1, playbackState, "")
            /\ UNCHANGED <<isAnalyzing, analysis, inflight>>
       ELSE LET frame == analyzedFrame(frames, currentFrameIndex)
            IN  /\ isAnalyzing' = TRUE
                /\ analysis' = JsNull
                /\ inflight' = Append(inflight,
                                      [imageData |-> frame.imageData,
                                       frameId |-> frame.id,
                                       index |-> currentFrameIndex,
                                       dismissed |-> FALSE])
                /\ lastEvent' = Event("analyze", frame.id, playbackState, "")
    /\ UNCHANGED <<frames, playbackState, currentFrameIndex, intervalRef, timers,
                   nextTimer, API_KEY, readyState, now, nextId>>
    /\ Commit

\* The promise of the i-th outstanding analyzeTimeFrame call settles and
\* handleAnalyze resumes after its await.
handleAnalyzeResume(i) ==
    /\ pendingEffects = {}
    /\ i \in 1 .. Len(inflight)
    /\ \E outcome \in Outcomes :
          LET req == inflight[i]
              result == analyzeTimeFrame(API_KEY, req.imageData, outcome)
          IN  /\ IF result.threw
                 THEN UNCHANGED <<analysis, isAnalyzing>>
                 ELSE /\ analysis' = result.value
                      /\ isAnalyzing' = FALSE
              /\ lastEvent' = Event("analyzeDone", req.frameId, playbackState,
                                    IF result.threw THEN "rejected" ELSE outcome.kind)
    /\ inflight' = [j \in 1 .. Len(inflight) - 1 |->
                        IF j < i THEN inflight[j] ELSE inflight[j + 1]]
    /\ UNCHANGED <<frames, playbackState, currentFrameIndex, intervalRef, timers,
                   nextTimer, API_KEY, readyState, now, nextId>>
    /\ Commit

\* The close button of the analysis overlay, rendered while
\* (analysis || isAnalyzing).
dismissAnalysis ==
    /\ pendingEffects = {}
    /\ ~Falsy(analysis) \/ isAnalyzing
    /\ analysis' = JsNull
    /\ inflight' = [j \in 1 .. Len(inflight) |->
                        [inflight[j] EXCEPT !.dismissed = TRUE]]
    /\ lastEvent' = Event("dismiss", -1, playbackState, "")
    /\ UNCHANGED <<frames, playbackState, currentFrameIndex, isAnalyzing,
                   intervalRef, timers, nextTimer, API_KEY, readyState,
                   now, nextId>>
    /\ Commit

Next ==
    \/ FlushEffects
    \/ VideoReadyChange
    \/ \E t \in timers : captureFrame(t)
    \/ \E index \in 0 .. MAX_BUFFER_SIZE : handleTimelineChange(index)
    \/ handleAnalyze
    \/ \E i \in 1 .. Len(inflight) : handleAnalyzeResume(i)
    \/ dismissAnalysis

Spec == Init /\ [][Next]_vars

\* The event loop runs every task that is ready: pending effects are flushed,
\* and the continuation of handleAnalyze runs once the remote call has
\* returned or failed.
analysisSettles == \E i \in 1 .. Len(inflight) : handleAnalyzeResume(i)
SpecFair == Spec /\ WF_vars(FlushEffects) /\ WF_vars(analysisSettles)

\* ------------------------------------------- the OFFSET read-out on its own
\* getTimeOffset rendered for buffers of frames whose timestamps are drawn
\* from 0, 100, 200, ... ms, oldest first, and every valid currentFrameIndex.
OffsetTimes == {k * CAPTURE_INTERVAL_MS : k \in 0 .. MaxOffsetLen - 1}
OffsetBuffers ==
    UNION {{[j \in 1 .. n |-> [id |-> j,
                               timestamp |-> ts[j],
                               imageData |-> toDataURL("sceneA")]] :
              ts \in {f \in [1 .. n -> OffsetTimes] :
                         \A j \in 1 .. n - 1 : f[j] <= f[j + 1]}} :
           n \in 1 .. MaxOffsetLen}

InitOffset ==
    /\ frames \in OffsetBuffers
    /\ currentFrameIndex \in 0 .. Len(frames) - 1
    /\ playbackState = scrubState(currentFrameIndex, Len(frames))
    /\ isAnalyzing = FALSE
    /\ analysis = JsNull
    /\ intervalRef = 0
    /\ timers = {}
    /\ nextTimer = 1
    /\ pendingEffects = {}
    /\ inflight = <<>>
    /\ API_KEY = ""
    /\ readyState = HAVE_CURRENT_DATA
    /\ now = frames[Len(frames)].timestamp
    /\ nextId = Len(frames) + 1
    /\ offsetText = getTimeOffset(<<>>, -1)
    /\ lastEvent = Event("mount", -1, LIVE, "")

\* The render of "OFFSET: {getTimeOffset()}".
renderOffset ==
    /\ lastEvent.op # "render"
    /\ offsetText' = getTimeOffset(frames, currentFrameIndex)
    /\ lastEvent' = Event("render", currentFrameIndex, playbackState, "")
    /\ UNCHANGED <<frames, playbackState, currentFrameIndex, isAnalyzing,
                   analysis, intervalRef, timers, nextTimer, pendingEffects,
                   inflight, API_KEY, readyState, now, nextId>>

NextOffset == renderOffset

SpecOffset == InitOffset /\ [][NextOffset]_vars

\* ------------------------------------------------------------- properties
Min(a, b) == IF a <= b THEN a ELSE b
\* The number of frames appended so far: ids are handed out 1, 2, 3, ...
appended == nextId - 1
settled == pendingEffects = {}
isScrub == \E index \in 0 .. MAX_BUFFER_SIZE : handleTimelineChange(index)

\* C1: after any sequence of capture ticks, scrubs and analysis events the
\* frame buffer never holds more than MAX_BUFFER_SIZE frames.
BufferWithinCapacity == Len(frames) <= MAX_BUFFER_SIZE

\* C1 witness: a frame was appended to a full buffer and one was evicted.
EvictedAtCapacity ==
    /\ lastEvent.op = "captureFrame" /\ lastEvent.arg = 1
    /\ appended > MAX_BUFFER_SIZE
    /\ Len(frames) = MAX_BUFFER_SIZE

\* C2: after k appends the buffer holds exactly the last min(k, N) appended
\* frames, oldest first; each append puts the new frame at the end and, when
\* the buffer was full, removes exactly the one oldest frame and no other.
BufferHoldsLastFrames ==
    /\ [](LET n == Min(appended, MAX_BUFFER_SIZE)
          IN  /\ Len(frames) = n
              /\ \A j \in 1 .. n : frames[j].id = appended - n + j)
    /\ [][frames' # frames =>
            /\ Len(frames') >= 1
            /\ frames'[Len(frames')].id = nextId
            /\ SubSeq(frames', 1, Len(frames') - 1) =
                  IF Len(frames) = MAX_BUFFER_SIZE THEN Tail(frames) ELSE frames]_vars

\* C2 witness: one more append than the capacity, the first frame is gone
\* (N = 3: a, b, c, d leave [b, c, d]).
OldestEvicted ==
    /\ appended = MAX_BUFFER_SIZE + 1
    /\ Len(frames) = MAX_BUFFER_SIZE
    /\ frames[1].id = 2
    /\ frames[MAX_BUFFER_SIZE].id = MAX_BUFFER_SIZE + 1

ScrubToNewestGoesLive ==
    (lastEvent.op = "scrub" /\ Len(frames) >= 1 /\ lastEvent.arg = Len(frames) - 1)
        => /\ playbackState = LIVE
           /\ currentFrameIndex = Len(frames) - 1
           /\ analysis = JsNull

\* C4 witness: the scrub came from PAUSED with a request outstanding.
ScrubbedBackToLive ==
    /\ lastEvent.op = "scrub" /\ lastEvent.from = PAUSED
    /\ Len(frames) >= 2 /\ lastEvent.arg = Len(frames) - 1
    /\ isAnalyzing

\* C5: a scrub to a valid index other than the newest leaves PAUSED with
\* currentFrameIndex at the target.
ScrubToOlderPauses ==
    (lastEvent.op = "scrub" /\ lastEvent.arg < Len(frames) - 1)
        => /\ playbackState = PAUSED
           /\ currentFrameIndex = lastEvent.arg

\* C5 witness: buffer of three frames, LIVE, scrub to index 0.
ScrubbedToFirstFrame ==
    /\ lastEvent.op = "scrub" /\ lastEvent.from = LIVE /\ lastEvent.arg = 0
    /\ Len(frames) = 3
    /\ playbackState = PAUSED

\* C6: while PAUSED, no step other than a scrub changes currentFrameIndex.
PausedIndexFrozen ==
    [][(playbackState = PAUSED /\ ~isScrub)
          => currentFrameIndex' = currentFrameIndex]_vars

\* C6 witness: an analysis completed while paused on an older frame.
AnalyzedWhilePaused ==
    /\ playbackState = PAUSED /\ settled
    /\ lastEvent.op = "analyzeDone"
    /\ currentFrameIndex < Len(frames) - 1

\* C7: no step taken in PAUSED changes the frame buffer.
NoAppendWhilePaused ==
    [][playbackState = PAUSED => frames' = frames]_vars

\* C7 witness: paused with the video readable and room for more captures,
\* after time has passed, and no timer is left to capture.
PausedWithoutTimer ==
    /\ playbackState = PAUSED /\ settled
    /\ lastEvent.op = "analyzeDone"
    /\ readyState >= HAVE_CURRENT_DATA
    /\ nextId <= MaxCaptures
    /\ timers = {}

\* C8: a result that arrives is displayed only if the viewer is still PAUSED
\* on the frame the request was issued for.
StaleResultDiscarded ==
    (lastEvent.op = "analyzeDone" /\ ~Falsy(analysis))
        => /\ playbackState = PAUSED
           /\ hasFrame(frames, currentFrameIndex)
           /\ frameAt(frames, currentFrameIndex).id = lastEvent.arg

\* C9: every analyzeTimeFrame call returns to handleAnalyze with a non-empty
\* string: the fixed fallback on a missing key, on a fault thrown by the
\* remote call and on a response without text.
AnalyzeAlwaysReturnsText ==
    lastEvent.op = "analyzeDone" =>
        /\ lastEvent.aux # "rejected"
        /\ ~Falsy(analysis)
        /\ Falsy(API_KEY) => analysis = MissingKeyText
        /\ (~Falsy(API_KEY) /\ lastEvent.aux = "throw") => analysis = NetworkFaultText
        /\ (~Falsy(API_KEY) /\ lastEvent.aux \in {"empty", "notext"})
              => analysis = NoTextText

\* C9 witness: the remote call threw and the fallback is shown.
NetworkFaultShown ==
    /\ lastEvent.op = "analyzeDone" /\ lastEvent.aux = "throw"
    /\ ~Falsy(API_KEY)
    /\ analysis = NetworkFaultText
TimeOffsetZeroWhenLive ==
    /\ offsetText.tenths >= 0
    /\ (playbackState = LIVE \/ Len(frames) <= 1) => offsetText.tenths = 0

\* C12: after a scrub on a non-empty buffer currentFrameIndex lies in
\* [0, length - 1]; after a scrub on an empty buffer currentFrameIndex does
\* not name a frame that is not there (it stays below 0).
ScrubIndexClamped ==
    lastEvent.op = "scrub" =>
        IF Len(frames) >= 1
        THEN currentFrameIndex \in 0 .. Len(frames) - 1
        ELSE currentFrameIndex < 0

\* C13: an analysis request is issued only from PAUSED and only for a frame
\* that exists at currentFrameIndex.
AnalyzeOnlyWhenPaused ==
    [][Len(inflight') > Len(inflight)
          => /\ playbackState = PAUSED
             /\ hasFrame(frames, currentFrameIndex)]_vars

\* C13 witness: a request has just been issued.
AnalysisRequested ==
    /\ lastEvent.op = "analyze" /\ lastEvent.arg >= 1
    /\ Len(inflight) = 1
    /\ isAnalyzing

\* C14: a request carries the image and the id of the frame at
\* currentFrameIndex when Analyze was clicked, and no step changes them
\* while the request is outstanding; the result that arrives is the one for
\* that frame.
RequestTiedToClickedFrame ==
    [][/\ Len(inflight') > Len(inflight)
          => LET req == inflight'[Len(inflight')]
                 shown == frameAt(frames, currentFrameIndex)
             IN  /\ hasFrame(frames, currentFrameIndex)
                 /\ req.imageData = shown.imageData
                 /\ req.frameId = shown.id
       /\ Len(inflight') = Len(inflight)
          => \A j \in 1 .. Len(inflight) :
                /\ inflight'[j].imageData = inflight[j].imageData
                /\ inflight'[j].frameId = inflight[j].frameId
       /\ Len(inflight') < Len(inflight)
          => /\ lastEvent'.op = "analyzeDone"
             /\ \E j \in 1 .. Len(inflight) : lastEvent'.arg = inflight[j].frameId]_vars

\* C14 witness: a request is outstanding, the viewer has gone back to LIVE
\* and the frame the request was issued for has left the buffer.
RequestOutlivesItsFrame ==
    /\ Len(inflight) = 1
    /\ playbackState = LIVE
    /\ lastEvent.op = "captureFrame" /\ lastEvent.arg = 1
    /\ \A j \in 1 .. Len(frames) : frames[j].id # inflight[1].frameId

\* C15: a capture tick that finds the video unreadable changes nothing but
\* the record of the tick: buffer, playback state, index, analysis state and
\* timers stay as they are, so the timer goes on ticking.
isCaptureTick == \E t \in timers : captureFrame(t)
UnreadableTickSkipped ==
    [][(isCaptureTick /\ (readyState < HAVE_CURRENT_DATA \/ lastEvent'.arg = 0))
          => UNCHANGED <<frames, playbackState, currentFrameIndex, isAnalyzing,
                         analysis, inflight, intervalRef, timers, pendingEffects,
                         nextId, now>>]_vars

\* C15 witness: a tick was skipped after frames had been captured, and the
\* timer is still there.
TickSkippedMidSession ==
    /\ lastEvent.op = "captureFrame" /\ lastEvent.arg = 0
    /\ readyState < HAVE_CURRENT_DATA
    /\ Len(frames) >= 1
    /\ timers # {}

\* C16: once the overlay has been dismissed, no result is displayed until a
\* new analyze action: a result that arrives for a request issued before the
\* dismissal is not shown, and nothing else brings a result back.
DismissedStaysDismissed ==
    [][(Falsy(analysis) /\ ~Falsy(analysis'))
          => \E i \in 1 .. Len(inflight) :
                /\ handleAnalyzeResume(i)
                /\ ~inflight[i].dismissed]_vars

\* C17: at most one analysis request is outstanding at any time, and one is
\* outstanding exactly while isAnalyzing.
OneRequestAtATime ==
    /\ Len(inflight) <= 1
    /\ isAnalyzing <=> Len(inflight) = 1

\* C17 witness: a request is outstanding and the viewer has been to LIVE and
\* back to PAUSED since it was issued.
RequestOutstandingAfterRoundTrip ==
    /\ playbackState = PAUSED /\ settled
    /\ isAnalyzing /\ Len(inflight) = 1
    /\ nextTimer > 2
    /\ lastEvent.op = "scrub"

\* C18: PAUSED implies at least two frames and 0 <= currentFrameIndex <
\* length - 1.
PausedOnOlderFrame ==
    playbackState = PAUSED
        => /\ Len(frames) >= 2
           /\ 0 <= currentFrameIndex
           /\ currentFrameIndex < Len(frames) - 1

\* C18 witness: paused on the frame just before the newest one.
PausedNextToNewest ==
    /\ playbackState = PAUSED /\ settled
    /\ currentFrameIndex = Len(frames) - 2

\* C19: at most one capture timer is ever active; once the effects of a
\* commit have run there is exactly one in LIVE, the one intervalRef holds,
\* and none in PAUSED.
OneTimerWhenLive ==
    /\ Cardinality(timers) <= 1
    /\ (settled /\ playbackState = LIVE) => timers = {intervalRef}
    /\ (settled /\ playbackState = PAUSED) => timers = {}

\* C19 witness: LIVE again after a pause, capturing with the one new timer.
CapturingAfterResume ==
    /\ playbackState = LIVE /\ settled
    /\ nextTimer > 2
    /\ lastEvent.op = "captureFrame" /\ lastEvent.arg = 1
    /\ Cardinality(timers) = 1

\* C20: every started analysis finishes: whenever isAnalyzing is true it is
\* eventually false again, whatever scrubs, dismissals or appends come in
\* between, given that the remote call returns or fails.
EveryAnalysisFinishes == isAnalyzing ~> ~isAnalyzing

\* C20 witness: an analysis finished after the viewer had gone back to LIVE
\* and frames had been appended and evicted.
FinishedAfterReturnToLive ==
    /\ lastEvent.op = "analyzeDone"
    /\ ~isAnalyzing
    /\ playbackState = LIVE
    /\ appended > MAX_BUFFER_SIZE
====
